---- MODULE Spec2Model ----
(***************************************************************************)
(* A model of ezdxf's Auditor (src/ezdxf/audit/auditor.py): the error      *)
(* list, the set of reported pointer targets, the run() orchestration, the *)
(* seven entity rules, filter_errors, print_report and the reads           *)
(* __len__, __bool__, __iter__.                                            *)
(*                                                                         *)
(* Representation.  Strings the code inspects character by character       *)
(* (dxfversion, linetype, layer) are sequences of one-character strings;   *)
(* strings that are only compared or looked up (handles, style names,      *)
(* table names, error codes) are TLA+ strings.  A formatted message        *)
(* 'text {}'.format(v) is the pair <<text, ToString(v)>>.                  *)
(***************************************************************************)
EXTENDS Integers, Sequences, FiniteSets, TLC

VARIABLES
    drawing,            \* Auditor.drawing: the audited document (read only)
    errors,             \* Auditor.errors: list of ErrorEntry
    undefined_targets,  \* Auditor.undefined_targets: set of handles
    pc,                 \* position of the caller inside run(), or "idle"
    walk,               \* check_database_entities: index of the next key
    last,               \* the most recent call that may change the Auditor
    stream,             \* what the most recent step wrote to its stream
    returned,           \* what the most recent step returned, if it was a read
    gen,                \* the generator object filter_errors returned last
    yielded             \* what each iteration of that generator yielded

vars == <<drawing, errors, undefined_targets, pc, walk, last, stream, returned, gen, yielded>>

(***************************************************************************)
(* Bounds of the model.                                                    *)
(***************************************************************************)
MaxTags == 2        \* tags per entity in the pointer documents
MaxAdds == 2        \* add_error calls by the caller while a list lives
MaxErrors == 2      \* error list length up to which a rule is called directly
MaxSink == 3        \* error list length in the sink specification
MaxIter == 2        \* iterations of one generator of filter_errors

(***************************************************************************)
(* Strings.                                                                *)
(***************************************************************************)
None == "None"

Ord ==
    [c \in {"0", "1", "2", "5", "6", "9", "A", "C"} |->
        CASE c = "0" -> 48 [] c = "1" -> 49 [] c = "2" -> 50 [] c = "5" -> 53
          [] c = "6" -> 54 [] c = "9" -> 57 [] c = "A" -> 65 [] c = "C" -> 67]

\* Python's s > t on strings: lexicographic by code point, a proper prefix is smaller
RECURSIVE StrGreater(_, _)
StrGreater(s, t) ==
    IF s = <<>> THEN FALSE
    ELSE IF t = <<>> THEN TRUE
    ELSE IF Ord[Head(s)] # Ord[Head(t)] THEN Ord[Head(s)] > Ord[Head(t)]
    ELSE StrGreater(Tail(s), Tail(t))

UpperToLower ==
    [c \in {"A", "B", "C", "D", "E", "H", "I", "K", "L", "N", "O", "R", "S", "T", "U", "Y"} |->
        CASE c = "A" -> "a" [] c = "B" -> "b" [] c = "C" -> "c" [] c = "D" -> "d"
          [] c = "E" -> "e" [] c = "H" -> "h" [] c = "I" -> "i" [] c = "K" -> "k"
          [] c = "L" -> "l" [] c = "N" -> "n" [] c = "O" -> "o" [] c = "R" -> "r"
          [] c = "S" -> "s" [] c = "T" -> "t" [] c = "U" -> "u" [] c = "Y" -> "y"]

\* str.lower()
Lower(s) ==
    [k \in 1..Len(s) |-> IF s[k] \in DOMAIN UpperToLower THEN UpperToLower[s[k]] ELSE s[k]]

\* 'text {}'.format(v)
Format(text, v) == <<text, ToString(v)>>

\* the default message ''
EmptyMessage == <<"", "">>

Range(s) == {s[k] : k \in 1..Len(s)}

(***************************************************************************)
(* Constants of the code and of its collaborators.                         *)
(***************************************************************************)
REQUIRED_ROOT_DICT_ENTRIES == <<"ACAD_GROUP", "ACAD_PLOTSTYLENAME">>

AC1009 == <<"A", "C", "1", "0", "0", "9">>

MISSING_REQUIRED_ROOT_DICT_ENTRY == "MISSING_REQUIRED_ROOT_DICT_ENTRY"
UNDEFINED_LINETYPE == "UNDEFINED_LINETYPE"
UNDEFINED_TEXT_STYLE == "UNDEFINED_TEXT_STYLE"
UNDEFINED_DIMENSION_STYLE == "UNDEFINED_DIMENSION_STYLE"
INVALID_LAYER_NAME == "INVALID_LAYER_NAME"
INVALID_COLOR_INDEX == "INVALID_COLOR_INDEX"
INVALID_OWNER_HANDLE == "INVALID_OWNER_HANDLE"
POINTER_TARGET_NOT_EXISTS == "POINTER_TARGET_NOT_EXISTS"

\* ezdxf.lldxf.types.is_pointer_code: decided by the group code alone
POINTER_CODES == (320..369) \cup (390..399) \cup {480, 481, 1005}
is_pointer_code(code) == code \in POINTER_CODES

\* ezdxf.lldxf.validator.is_valid_layer_name: none of <>/\":;?*|='
INVALID_LAYER_CHARS == {"<", ">", "/", "\\", "\"", ":", ";", "?", "*", "|", "=", "'"}
is_valid_layer_name(name) == \A k \in 1..Len(name) : name[k] \notin INVALID_LAYER_CHARS

(***************************************************************************)
(* The document, as the Auditor reads it.                                  *)
(*   drawing.dxfversion   string                                           *)
(*   drawing.rootdict     [handle, entries]: `name in root_dict`           *)
(*   drawing.tables       table name -> the findings that table's own      *)
(*                        audit(auditor) reports (drawing.sections.tables) *)
(*   drawing.linetypes, drawing.styles, drawing.dimstyles  sets of names   *)
(*   drawing.entitydb     the entities in key order                        *)
(* An entity is [handle, dxftype, dxf, tags]: dxf maps each supported      *)
(* attribute name to its value, tags is a sequence of [code, value].       *)
(***************************************************************************)
entitydb_keys(d) == [k \in 1..Len(d.entitydb) |-> d.entitydb[k].handle]

in_entitydb(d, handle) == handle \in Range(entitydb_keys(d))

get_dxf_entity(d, handle) == CHOOSE e \in Range(d.entitydb) : e.handle = handle

supports_dxf_attrib(entity, name) == name \in DOMAIN entity.dxf

(***************************************************************************)
(* ErrorEntry and the Auditor's operations on the error list.              *)
(***************************************************************************)
ErrorEntry(code, message, dxf_entity, data) ==
    [code |-> code, entity |-> dxf_entity, message |-> message, data |-> data]

\* the record put in front of the list
add_error_at_front(errs, code, message, dxf_entity, data) ==
    <<ErrorEntry(code, message, dxf_entity, data)>> \o errs

add_error(errs, code, message, dxf_entity, data) ==
    Append(errs, ErrorEntry(code, message, dxf_entity, data))

get_pointers(tags) ==
    LET ptrs == SelectSeq(tags, LAMBDA t : is_pointer_code(t.code))
    IN  [k \in 1..Len(ptrs) |-> ptrs[k].value]

(***************************************************************************)
(* The state of one Auditor is [errors, undefined_targets]; every check    *)
(* maps the state before the call to the state after it.                   *)
(***************************************************************************)
NewAuditor == [errors |-> <<>>, undefined_targets |-> {}]

\* reset() that forgets to clear the reported targets
reset_keeps_targets(aud) == [errors |-> <<>>, undefined_targets |-> aud.undefined_targets]

reset(aud) == [errors |-> <<>>, undefined_targets |-> {}]

\* the loop body of check_root_dict for REQUIRED_ROOT_DICT_ENTRIES[k .. ]
RECURSIVE check_root_dict_from(_, _, _)
check_root_dict_from(aud, d, k) ==
    IF k > Len(REQUIRED_ROOT_DICT_ENTRIES) THEN aud
    ELSE LET name == REQUIRED_ROOT_DICT_ENTRIES[k]
             next == IF name \notin d.rootdict.entries
                     THEN [aud EXCEPT !.errors =
                              add_error(@, MISSING_REQUIRED_ROOT_DICT_ENTRY,
                                        Format("Missing root dict entry: ", name),
                                        d.rootdict.handle, None)]
                     ELSE aud
         IN  check_root_dict_from(next, d, k + 1)

\* check_root_dict that looks for the first required entry only
check_root_dict_first_only(aud, d) ==
    IF REQUIRED_ROOT_DICT_ENTRIES[1] \notin d.rootdict.entries
    THEN [aud EXCEPT !.errors =
             add_error(@, MISSING_REQUIRED_ROOT_DICT_ENTRY,
                       Format("Missing root dict entry: ", REQUIRED_ROOT_DICT_ENTRIES[1]),
                       d.rootdict.handle, None)]
    ELSE aud

check_root_dict(aud, d) == check_root_dict_from(aud, d, 1)

\* tables[name].audit(self): the table reports its findings through add_error
RECURSIVE table_audit(_, _)
table_audit(aud, findings) ==
    IF findings = <<>> THEN aud
    ELSE LET f == Head(findings)
         IN  table_audit([aud EXCEPT !.errors = add_error(@, f.code, f.message, f.entity, None)],
                         Tail(findings))

check_table(aud, d, name) ==
    IF name \in DOMAIN d.tables THEN table_audit(aud, d.tables[name]) ELSE aud

\* dxfversion >= 'AC1009' in place of >
modern_or_AC1009(d) == d.dxfversion = AC1009 \/ StrGreater(d.dxfversion, AC1009)

modern(d) == StrGreater(d.dxfversion, AC1009)

\* block_records audited whatever the version
check_table_entries_any_version(aud, d) ==
    LET a1 == check_table(aud, d, "layers")
        a2 == check_table(a1, d, "linetypes")
        a3 == check_table(a2, d, "styles")
        a4 == check_table(a3, d, "dimstyles")
        a5 == check_table(a4, d, "ucs")
        a6 == check_table(a5, d, "appids")
        a7 == check_table(a6, d, "views")
    IN  check_table(a7, d, "block_records")

check_table_entries(aud, d) ==
    LET a1 == check_table(aud, d, "layers")
        a2 == check_table(a1, d, "linetypes")
        a3 == check_table(a2, d, "styles")
        a4 == check_table(a3, d, "dimstyles")
        a5 == check_table(a4, d, "ucs")
        a6 == check_table(a5, d, "appids")
        a7 == check_table(a6, d, "views")
    IN  IF modern(d) THEN check_table(a7, d, "block_records") ELSE a7

\* the comparison without lower()
check_if_linetype_exists_case_sensitive(aud, d, entity) ==
    IF ~supports_dxf_attrib(entity, "linetype") THEN aud
    ELSE LET linetype == entity.dxf.linetype
         IN  IF linetype \in {<<"b", "y", "l", "a", "y", "e", "r">>,
                              <<"b", "y", "b", "l", "o", "c", "k">>}
             THEN aud
             ELSE IF linetype \notin d.linetypes
             THEN [aud EXCEPT !.errors =
                      add_error(@, UNDEFINED_LINETYPE,
                                Format("Undefined linetype: ", linetype), entity.handle, None)]
             ELSE aud

check_if_linetype_exists(aud, d, entity) ==
    IF ~supports_dxf_attrib(entity, "linetype") THEN aud
    ELSE LET linetype == entity.dxf.linetype
         IN  IF Lower(linetype) \in {<<"b", "y", "l", "a", "y", "e", "r">>,
                                     <<"b", "y", "b", "l", "o", "c", "k">>}
             THEN aud
             ELSE IF linetype \notin d.linetypes
             THEN [aud EXCEPT !.errors =
                      add_error(@, UNDEFINED_LINETYPE,
                                Format("Undefined linetype: ", linetype), entity.handle, None)]
             ELSE aud

check_if_text_style_exists(aud, d, entity) ==
    IF ~supports_dxf_attrib(entity, "style") THEN aud
    ELSE LET style == entity.dxf.style
         IN  IF style \notin d.styles
             THEN [aud EXCEPT !.errors =
                      add_error(@, UNDEFINED_TEXT_STYLE,
                                Format("Undefined dimstyle: ", style), entity.handle, None)]
             ELSE aud

check_if_dimension_style_exists(aud, d, entity) ==
    IF ~supports_dxf_attrib(entity, "dimstyle") THEN aud
    ELSE LET dimstyle == entity.dxf.dimstyle
         IN  IF dimstyle \notin d.dimstyles
             THEN [aud EXCEPT !.errors =
                      add_error(@, UNDEFINED_DIMENSION_STYLE,
                                Format("Undefined dimstyle: ", dimstyle), entity.handle, None)]
             ELSE aud

check_for_valid_layer_name(aud, d, entity) ==
    IF ~supports_dxf_attrib(entity, "layer") THEN aud
    ELSE LET name == entity.dxf.layer
         IN  IF ~is_valid_layer_name(name)
             THEN [aud EXCEPT !.errors =
                      add_error(@, INVALID_LAYER_NAME,
                                Format("Invalid layer name: ", name), entity.handle, None)]
             ELSE aud

\* the range test with 255 as the upper end
check_for_valid_color_index_255(aud, d, entity) ==
    IF ~supports_dxf_attrib(entity, "color") THEN aud
    ELSE LET color == entity.dxf.color
         IN  IF color < 0 \/ color > 255
             THEN [aud EXCEPT !.errors =
                      add_error(@, INVALID_COLOR_INDEX,
                                Format("Invalid color index: ", color), entity.handle, None)]
             ELSE aud

check_for_valid_color_index(aud, d, entity) ==
    IF ~supports_dxf_attrib(entity, "color") THEN aud
    ELSE LET color == entity.dxf.color
         IN  IF color < 0 \/ color > 256
             THEN [aud EXCEPT !.errors =
                      add_error(@, INVALID_COLOR_INDEX,
                                Format("Invalid color index: ", color), entity.handle, None)]
             ELSE aud

\* the owner rule with the exemption of the unset handle '0'
check_for_existing_owner_zero_exempt(aud, d, entity) ==
    IF ~supports_dxf_attrib(entity, "owner") THEN aud
    ELSE LET owner_handle == entity.dxf.owner
         IN  IF ~in_entitydb(d, owner_handle) /\ owner_handle # "0"
             THEN [aud EXCEPT !.errors =
                      add_error(@, INVALID_OWNER_HANDLE,
                                Format("Invalid owner handle: #", owner_handle),
                                entity.handle, None)]
             ELSE aud

check_for_existing_owner(aud, d, entity) ==
    IF ~supports_dxf_attrib(entity, "owner") THEN aud
    ELSE LET owner_handle == entity.dxf.owner
         IN  IF ~in_entitydb(d, owner_handle)
             THEN [aud EXCEPT !.errors =
                      add_error(@, INVALID_OWNER_HANDLE,
                                Format("Invalid owner handle: #", owner_handle),
                                entity.handle, None)]
             ELSE aud

\* the loop body without the test of undefined_targets
pointer_step_no_dedup(aud, d, entity, invalid_zero, target_pointer) ==
    IF ~in_entitydb(d, target_pointer)
    THEN IF target_pointer = "0" /\ ~invalid_zero THEN aud
         ELSE [errors |-> add_error(aud.errors, POINTER_TARGET_NOT_EXISTS,
                                    Format("Pointer target does not exist: #", target_pointer),
                                    entity.handle, None),
               undefined_targets |-> aud.undefined_targets \cup {target_pointer}]
    ELSE aud

\* the loop body without the exemption of the unset pointer '0'
pointer_step_zero_reported(aud, d, entity, invalid_zero, target_pointer) ==
    IF ~in_entitydb(d, target_pointer)
    THEN IF target_pointer \in aud.undefined_targets THEN aud
         ELSE [errors |-> add_error(aud.errors, POINTER_TARGET_NOT_EXISTS,
                                    Format("Pointer target does not exist: #", target_pointer),
                                    entity.handle, None),
               undefined_targets |-> aud.undefined_targets \cup {target_pointer}]
    ELSE aud

\* the loop body that reports a target without adding it to undefined_targets
pointer_step_unmarked(aud, d, entity, invalid_zero, target_pointer) ==
    IF ~in_entitydb(d, target_pointer)
    THEN IF target_pointer = "0" /\ ~invalid_zero THEN aud
         ELSE IF target_pointer \in aud.undefined_targets THEN aud
         ELSE [errors |-> add_error(aud.errors, POINTER_TARGET_NOT_EXISTS,
                                    Format("Pointer target does not exist: #", target_pointer),
                                    entity.handle, None),
               undefined_targets |-> aud.undefined_targets]
    ELSE aud

\* the loop body that, for a target already reported, moves the record to the
\* entity at hand
pointer_step_last_reporter(aud, d, entity, invalid_zero, target_pointer) ==
    IF ~in_entitydb(d, target_pointer)
    THEN IF target_pointer = "0" /\ ~invalid_zero THEN aud
         ELSE IF target_pointer \in aud.undefined_targets
         THEN [aud EXCEPT !.errors =
                  [k \in 1..Len(aud.errors) |->
                      IF /\ aud.errors[k].code = POINTER_TARGET_NOT_EXISTS
                         /\ aud.errors[k].message =
                                Format("Pointer target does not exist: #", target_pointer)
                      THEN [aud.errors[k] EXCEPT !.entity = entity.handle]
                      ELSE aud.errors[k]]]
         ELSE [errors |-> add_error(aud.errors, POINTER_TARGET_NOT_EXISTS,
                                    Format("Pointer target does not exist: #", target_pointer),
                                    entity.handle, None),
               undefined_targets |-> aud.undefined_targets \cup {target_pointer}]
    ELSE aud

\* one pass of the loop body of check_pointer_target_exists
pointer_step(aud, d, entity, invalid_zero, target_pointer) ==
    IF ~in_entitydb(d, target_pointer)
    THEN IF target_pointer = "0" /\ ~invalid_zero THEN aud
         ELSE IF target_pointer \in aud.undefined_targets THEN aud
         ELSE [errors |-> add_error(aud.errors, POINTER_TARGET_NOT_EXISTS,
                                    Format("Pointer target does not exist: #", target_pointer),
                                    entity.handle, None),
               undefined_targets |-> aud.undefined_targets \cup {target_pointer}]
    ELSE aud

RECURSIVE pointer_loop(_, _, _, _, _)
pointer_loop(aud, d, entity, invalid_zero, pointers) ==
    IF pointers = <<>> THEN aud
    ELSE pointer_loop(pointer_step(aud, d, entity, invalid_zero, Head(pointers)),
                      d, entity, invalid_zero, Tail(pointers))

check_pointer_target_exists(aud, d, entity, invalid_zero) ==
    pointer_loop(aud, d, entity, invalid_zero, get_pointers(entity.tags))

\* entity.audit(self): the entity applies the whole rule set to itself
entity_audit(aud, d, entity) ==
    LET a1 == check_if_linetype_exists(aud, d, entity)
        a2 == check_if_text_style_exists(a1, d, entity)
        a3 == check_if_dimension_style_exists(a2, d, entity)
        a4 == check_for_valid_layer_name(a3, d, entity)
        a5 == check_for_valid_color_index(a4, d, entity)
        a6 == check_for_existing_owner(a5, d, entity)
    IN  check_pointer_target_exists(a6, d, entity, FALSE)

RECURSIVE check_database_entities_from(_, _, _)
check_database_entities_from(aud, d, k) ==
    IF k > Len(entitydb_keys(d)) THEN aud
    ELSE check_database_entities_from(
             entity_audit(aud, d, get_dxf_entity(d, entitydb_keys(d)[k])), d, k + 1)

check_database_entities(aud, d) == check_database_entities_from(aud, d, 1)

\* run() as one call
run(aud, d) ==
    LET a0 == reset(aud)
        a1 == IF modern(d) THEN check_root_dict(a0, d) ELSE a0
        a2 == check_table_entries(a1, d)
    IN  check_database_entities(a2, d)

\* a filter that stops at the first record it yields
filter_list_first_match(list, code) ==
    LET hits == SelectSeq(list, LAMBDA r : r.code = code)
    IN  IF hits = <<>> THEN <<>> ELSE <<Head(hits)>>

\* the generator expression of filter_errors, run to exhaustion over a list
RECURSIVE filter_list(_, _)
filter_list(list, code) ==
    IF list = <<>> THEN <<>>
    ELSE IF Head(list).code = code
         THEN <<Head(list)>> \o filter_list(Tail(list), code)
         ELSE filter_list(Tail(list), code)

\* iterating a generator as if filter_errors had returned a list
iterate_generator_again(g, list) == filter_list(list, g.code)

\* what iterating generator g to its end yields: an exhausted generator yields nothing
iterate_generator(g, list) ==
    IF g.state = "ready" THEN filter_list(list, g.code) ELSE <<>>

\* entity_str of print_report; entity.dxftype() and entity.dxf.handle of the
\* referenced entity are rendered from the reference
\* __len__, __bool__ and __iter__ of the Auditor (__iter__: the records the
\* iterator yields)
__len__(errs) == Len(errs)

__bool__(errs) == __len__(errs) > 0

__iter__(errs) == errs

\* entity_str that takes every record to have an entity
entity_str_always_entity(count, code, entity) ==
    <<"{:4d}. Issue code [{}] in DXF entity {}, handle: #{}", ToString(count), code, entity>>

entity_str(count, code, entity) ==
    IF entity # None
    THEN <<"{:4d}. Issue code [{}] in DXF entity {}, handle: #{}", ToString(count), code, entity>>
    ELSE <<"{:4d}. Issue code [{}]", ToString(count), code>>

\* print_report: the stream.write calls, one element per call

RECURSIVE report_entries(_, _)
report_entries(errs, count) ==
    IF count >= Len(errs) THEN <<>>
    ELSE LET error == errs[count + 1]
         IN  <<entity_str(count + 1, error.code, error.entity) \o <<"\n">>,
               <<"   ", error.message, "\n\n">>>>
             \o report_entries(errs, count + 1)

print_report(errs) ==
    IF Len(errs) = 0
    THEN << <<"No issues found.\n\n">> >>
    ELSE << <<"{} issues found.\n\n", ToString(Len(errs))>> >> \o report_entries(errs, 0)

(***************************************************************************)
(* Documents the Auditor is run on.                                        *)
(***************************************************************************)
AC1006 == <<"A", "C", "1", "0", "0", "6">>
AC1015 == <<"A", "C", "1", "0", "1", "5">>

BYLAYER == <<"B", "Y", "L", "A", "Y", "E", "R">>
ByLayer == <<"B", "y", "L", "a", "y", "e", "r">>
bylayer == <<"b", "y", "l", "a", "y", "e", "r">>
BYBLOCK == <<"B", "Y", "B", "L", "O", "C", "K">>
ByBlock == <<"B", "y", "B", "l", "o", "c", "k">>
CONTINUOUS == <<"C", "O", "N", "T", "I", "N", "U", "O", "U", "S">>
DASHED == <<"D", "A", "S", "H", "E", "D">>
BYLAYERS == <<"B", "Y", "L", "A", "Y", "E", "R", "S">>

TABLE_NAMES ==
    {"layers", "linetypes", "styles", "dimstyles", "ucs", "appids", "views", "block_records"}

\* a finding a table's audit reports about one of its entries
Finding(name) ==
    [code |-> "INVALID_TABLE_ENTRY", message |-> Format("Invalid entry in table: ", name),
     entity |-> None]

TableMaps ==
    { [n \in {} |-> <<>>],
      [n \in TABLE_NAMES |-> <<>>],
      [n \in TABLE_NAMES |-> <<Finding(n)>>],
      [n \in {"layers", "block_records"} |-> <<Finding(n)>>],
      [n \in {"linetypes", "views", "block_records"} |->
          IF n = "views" THEN <<Finding(n), Finding(n)>> ELSE <<>>] }

RootDicts ==
    {[handle |-> "C", entries |-> s] : s \in SUBSET {"ACAD_GROUP", "ACAD_PLOTSTYLENAME", "ACAD_LAYOUT"}}

FullRootDict == [handle |-> "C", entries |-> {"ACAD_GROUP", "ACAD_PLOTSTYLENAME", "ACAD_LAYOUT"}]

\* an attribute an entity may support: [on, v]
Unsupported(v) == [on |-> FALSE, v |-> v]
Supported(v) == [on |-> TRUE, v |-> v]

DxfOf(linetype, style, dimstyle, layer, color, owner) ==
    LET opt == [linetype |-> linetype.on, style |-> style.on, dimstyle |-> dimstyle.on,
                layer |-> layer.on, color |-> color.on, owner |-> owner.on]
    IN  [n \in {m \in DOMAIN opt : opt[m]} |->
            CASE n = "linetype" -> linetype.v
              [] n = "style" -> style.v
              [] n = "dimstyle" -> dimstyle.v
              [] n = "layer" -> layer.v
              [] n = "color" -> color.v
              [] n = "owner" -> owner.v]

\* a LINE on layer '0', BYLAYER, color 256, with no owner attribute and no tags
PlainDxf ==
    DxfOf(Supported(BYLAYER), Unsupported(""), Unsupported(""), Supported(<<"0">>),
          Supported(256), Unsupported(""))

Entity(handle, dxf, tags) == [handle |-> handle, dxftype |-> "LINE", dxf |-> dxf, tags |-> tags]

Document(dxfversion, rootdict, tables, entitydb) ==
    [dxfversion |-> dxfversion, rootdict |-> rootdict, tables |-> tables,
     linetypes |-> {CONTINUOUS}, styles |-> {"STANDARD"}, dimstyles |-> {"STANDARD"},
     entitydb |-> entitydb]

Tag(code, value) == [code |-> code, value |-> value]

\* pointer tags to the unset handle, to '2' and to '3', and a layer tag (code 8)
Tags == {Tag(330, "0"), Tag(330, "2"), Tag(340, "3"), Tag(8, "3")}

TagSeqs == UNION {[1..n -> Tags] : n \in 0..MaxTags}

\* the keys of the entity database, in iteration order
KeySeqs == {<<"1">>, <<"1", "2">>, <<"0", "1">>}

\* plain entities under these keys, each with its own tags
PointerDoc(keys, tags) ==
    Document(AC1015, FullRootDict, [n \in {} |-> <<>>],
             [k \in 1..Len(keys) |-> Entity(keys[k], PlainDxf, tags[k])])

\* one plain entity; version, root dict and tables vary
RootDoc(dxfversion, rootdict, tables) ==
    Document(dxfversion, rootdict, tables, <<Entity("1", PlainDxf, <<>>)>>)

LinetypeOpts == {Unsupported(<<>>), Supported(BYLAYER), Supported(CONTINUOUS), Supported(DASHED)}
StyleOpts == {Unsupported(""), Supported("STANDARD"), Supported("ARIAL")}
DimstyleOpts == {Unsupported(""), Supported("STANDARD"), Supported("ISO-25")}
LayerOpts == {Unsupported(<<>>), Supported(<<"0">>), Supported(<<"A", "*">>)}
ColorOpts == {Unsupported(0), Supported(-1), Supported(0), Supported(257)}
OwnerOpts == {Unsupported(""), Supported("1"), Supported("9")}

\* root dicts that lack ACAD_PLOTSTYLENAME
PhaseRootDicts == {r \in RootDicts : "ACAD_PLOTSTYLENAME" \notin r.entries}

\* one entity with color 257 and a dangling pointer; version, root dict and
\* tables vary
PhaseDoc(dxfversion, rootdict, tables) ==
    Document(dxfversion, rootdict, tables,
             <<Entity("1", DxfOf(Supported(BYLAYER), Unsupported(""), Unsupported(""),
                                 Supported(<<"0">>), Supported(257), Unsupported("")),
                      <<Tag(340, "3")>>)>>)

\* one entity with an unset pointer; its attributes vary
AttribDoc(dxf) ==
    Document(AC1015, FullRootDict, [n \in {} |-> <<>>], <<Entity("1", dxf, <<Tag(330, "0")>>)>>)

(***************************************************************************)
(* The caller's calls.                                                     *)
(***************************************************************************)
\* fresh: the Auditor held no record and no reported target when the call began
Call(op, handle, invalid_zero) ==
    [op |-> op, handle |-> handle, invalid_zero |-> invalid_zero,
     fresh |-> errors = <<>> /\ undefined_targets = {}]

\* gen.state: "none", "ready" (created, not yet iterated) or "exhausted";
\* gen.dirty: the error list changed since the generator was created;
\* gen.earlier: what the generator before it yielded, if that one was made for
\* the same code and the error list did not change since it was iterated
\* no read was the most recent step
NoReturn == [op |-> "none"]

NoGenerator ==
    [state |-> "none", code |-> None, live |-> FALSE, items |-> <<>>, dirty |-> FALSE,
     earlier |-> <<>>]

Auditor == [errors |-> errors, undefined_targets |-> undefined_targets]

\* the list object a generator was created over: Auditor.errors while that
\* attribute still names it (live), else the list as reset() left it behind
GenList == IF gen.live THEN errors ELSE gen.items

\* self.errors.append(..) is seen by a live generator; it is a change of the
\* error list
Touch(g) == IF g.state = "none" THEN g ELSE [g EXCEPT !.dirty = TRUE]

\* self.errors = []: a live generator keeps the old list object
Detach(g) ==
    IF g.state = "none" THEN g
    ELSE [g EXCEPT !.items = IF g.live THEN errors ELSE @, !.live = FALSE, !.dirty = TRUE]

Install(aud) ==
    /\ errors' = aud.errors
    /\ undefined_targets' = aud.undefined_targets

InitAuditor ==
    /\ errors = NewAuditor.errors
    /\ undefined_targets = NewAuditor.undefined_targets
    /\ pc = "idle"
    /\ walk = 0
    /\ last = Call("__init__", None, FALSE)
    /\ stream = <<>>
    /\ returned = NoReturn
    /\ gen = NoGenerator
    /\ yielded = <<>>

Init ==
    /\ \/ \E keys \in KeySeqs : \E tags \in [1..Len(keys) -> TagSeqs] :
              drawing = PointerDoc(keys, tags)
       \/ \E v \in {AC1006, AC1009, AC1015}, r \in RootDicts, t \in TableMaps :
              drawing = RootDoc(v, r, t)
       \/ \E lt \in LinetypeOpts, st \in StyleOpts, ds \in DimstyleOpts,
             ly \in LayerOpts, co \in ColorOpts, ow \in OwnerOpts :
              drawing = AttribDoc(DxfOf(lt, st, ds, ly, co, ow))
       \/ \E v \in {AC1006, AC1009, AC1015}, r \in PhaseRootDicts, t \in TableMaps :
              drawing = PhaseDoc(v, r, t)
    /\ InitAuditor

\* run(): reset, read the version, decide on the root dict check
RunBegin ==
    /\ pc = "idle"
    /\ Install(reset(Auditor))
    /\ pc' = IF modern(drawing) THEN "check_root_dict" ELSE "check_table_entries"
    /\ last' = Call("run", None, FALSE)
    /\ stream' = <<>>
    /\ returned' = NoReturn
    /\ gen' = Detach(gen)
    /\ UNCHANGED <<drawing, walk, yielded>>

\* run() with the root dict check placed after the table checks
RunCheckRootDict_after_tables ==
    /\ pc = "check_root_dict"
    /\ Install(check_root_dict(check_table_entries(Auditor, drawing), drawing))
    /\ pc' = "check_database_entities"
    /\ walk' = 1
    /\ gen' = Touch(gen)
    /\ UNCHANGED <<drawing, last, stream, returned, yielded>>

\* a root dict check that adds the entries it misses to the root dict
RunCheckRootDict_repairing ==
    /\ pc = "check_root_dict"
    /\ Install(check_root_dict(Auditor, drawing))
    /\ pc' = "check_table_entries"
    /\ gen' = Touch(gen)
    /\ drawing' = [drawing EXCEPT !.rootdict.entries = @ \cup Range(REQUIRED_ROOT_DICT_ENTRIES)]
    /\ UNCHANGED <<walk, last, stream, returned, yielded>>

RunCheckRootDict ==
    /\ pc = "check_root_dict"
    /\ Install(check_root_dict(Auditor, drawing))
    /\ pc' = "check_table_entries"
    /\ gen' = Touch(gen)
    /\ UNCHANGED <<drawing, walk, last, stream, returned, yielded>>

RunCheckTableEntries ==
    /\ pc = "check_table_entries"
    /\ Install(check_table_entries(Auditor, drawing))
    /\ pc' = "check_database_entities"
    /\ walk' = 1
    /\ gen' = Touch(gen)
    /\ UNCHANGED <<drawing, last, stream, returned, yielded>>

\* a loop that leaves after its first pass
RunAuditEntity_first_then_stop ==
    /\ pc = "check_database_entities"
    /\ walk <= Len(entitydb_keys(drawing))
    /\ LET handle == entitydb_keys(drawing)[walk]
           entity == get_dxf_entity(drawing, handle)
       IN  Install(entity_audit(Auditor, drawing, entity))
    /\ walk' = Len(entitydb_keys(drawing)) + 1
    /\ gen' = Touch(gen)
    /\ UNCHANGED <<drawing, pc, last, stream, returned, yielded>>

\* one pass of the loop of check_database_entities
RunAuditEntity ==
    /\ pc = "check_database_entities"
    /\ walk <= Len(entitydb_keys(drawing))
    /\ LET handle == entitydb_keys(drawing)[walk]
           entity == get_dxf_entity(drawing, handle)
       IN  Install(entity_audit(Auditor, drawing, entity))
    /\ walk' = walk + 1
    /\ gen' = Touch(gen)
    /\ UNCHANGED <<drawing, pc, last, stream, returned, yielded>>

RunReturn ==
    /\ pc = "check_database_entities"
    /\ walk > Len(entitydb_keys(drawing))
    /\ pc' = "idle"
    /\ walk' = 0
    /\ UNCHANGED <<drawing, errors, undefined_targets, last, stream, returned, gen, yielded>>

Reset ==
    /\ pc = "idle"
    /\ Install(reset(Auditor))
    /\ last' = Call("reset", None, FALSE)
    /\ stream' = <<>>
    /\ returned' = NoReturn
    /\ gen' = Detach(gen)
    /\ UNCHANGED <<drawing, pc, walk, yielded>>

\* add_error(code) called by the user of the Auditor, all defaults
CallerRecords == {k \in 1..Len(errors) : errors[k].message = EmptyMessage}

AddError ==
    /\ pc = "idle"
    /\ Cardinality(CallerRecords) < MaxAdds
    /\ errors' = add_error(errors, POINTER_TARGET_NOT_EXISTS, EmptyMessage, None, None)
    /\ last' = Call("add_error", None, FALSE)
    /\ stream' = <<>>
    /\ returned' = NoReturn
    /\ gen' = Touch(gen)
    /\ UNCHANGED <<drawing, undefined_targets, pc, walk, yielded>>

PrintReport ==
    /\ pc = "idle"
    /\ stream' = print_report(errors)
    /\ returned' = NoReturn
    /\ UNCHANGED <<drawing, errors, undefined_targets, pc, walk, last, gen, yielded>>

\* len(auditor), bool(auditor), list(auditor)
ReadLen ==
    /\ pc = "idle"
    /\ returned' = [op |-> "__len__", len |-> __len__(errors)]
    /\ stream' = <<>>
    /\ UNCHANGED <<drawing, errors, undefined_targets, pc, walk, last, gen, yielded>>

ReadBool ==
    /\ pc = "idle"
    /\ returned' = [op |-> "__bool__", bool |-> __bool__(errors)]
    /\ stream' = <<>>
    /\ UNCHANGED <<drawing, errors, undefined_targets, pc, walk, last, gen, yielded>>

ReadIter ==
    /\ pc = "idle"
    /\ returned' = [op |-> "__iter__", iter |-> __iter__(errors)]
    /\ stream' = <<>>
    /\ UNCHANGED <<drawing, errors, undefined_targets, pc, walk, last, gen, yielded>>

Next ==
    \/ RunBegin
    \/ RunCheckRootDict
    \/ RunCheckTableEntries
    \/ RunAuditEntity
    \/ RunReturn
    \/ Reset
    \/ AddError
    \/ PrintReport
    \/ ReadLen
    \/ ReadBool
    \/ ReadIter

Spec == Init /\ [][Next]_vars

(***************************************************************************)
(* Properties of run().                                                    *)
(***************************************************************************)
\* run() has returned and nothing that may change the Auditor was called since
RunDone == pc = "idle" /\ last.op = "run"

Entities(d) == Range(d.entitydb)

\* the positions of the pointer-coded tags of an entity that hold handle h
PointerTagsTo(entity, h) ==
    {k \in 1..Len(entity.tags) : is_pointer_code(entity.tags[k].code) /\ entity.tags[k].value = h}

PointerTargets(d) ==
    UNION { {e.tags[k].value : k \in {j \in 1..Len(e.tags) : is_pointer_code(e.tags[j].code)}}
            : e \in Entities(d) }

MissingTargets(d) == {h \in PointerTargets(d) : ~in_entitydb(d, h) /\ h # "0"}

RecordsNaming(errs, h) ==
    {k \in 1..Len(errs) :
        /\ errs[k].code = POINTER_TARGET_NOT_EXISTS
        /\ errs[k].message = <<"Pointer target does not exist: #", ToString(h)>>}

\* C1: after run(), every handle other than "0" that is absent from the entity
\* database and is the value of a pointer-coded tag is named by exactly one
\* POINTER_TARGET_NOT_EXISTS record, however many entities and tags refer to it.
C1_OneRecordPerMissingTarget ==
    RunDone => \A h \in MissingTargets(drawing) : Cardinality(RecordsNaming(errors, h)) = 1

\* a missing target that two entities point to, one of them with two tags
C1_Witness ==
    /\ RunDone
    /\ \E h \in MissingTargets(drawing) :
          /\ Cardinality({e \in Entities(drawing) : PointerTagsTo(e, h) # {}}) >= 2
          /\ \E e \in Entities(drawing) : Cardinality(PointerTagsTo(e, h)) >= 2
          /\ Cardinality(RecordsNaming(errors, h)) = 1

\* C2: whatever was called on the Auditor before, run() leaves the error list
\* (and the set of reported targets) that run() on a fresh Auditor leaves for
\* the same document.
C2_RunReproducible ==
    RunDone =>
        /\ errors = run(NewAuditor, drawing).errors
        /\ undefined_targets = run(NewAuditor, drawing).undefined_targets

\* a run that began with records and reported targets of earlier calls
C2_Witness ==
    /\ RunDone
    /\ ~last.fresh
    /\ errors # <<>>
    /\ undefined_targets # {}

\* C4: a document whose version is not above 'AC1009' never reaches
\* check_root_dict, and run() leaves no MISSING_REQUIRED_ROOT_DICT_ENTRY record.
C4_LegacySkipsRootDict ==
    ~StrGreater(drawing.dxfversion, AC1009) =>
        /\ pc # "check_root_dict"
        /\ RunDone => \A k \in 1..Len(errors) : errors[k].code # MISSING_REQUIRED_ROOT_DICT_ENTRY

\* run() is over for an AC1009 document whose root dict has neither required entry
C4_Witness ==
    /\ RunDone
    /\ drawing.dxfversion = AC1009
    /\ drawing.rootdict.entries \cap Range(REQUIRED_ROOT_DICT_ENTRIES) = {}

RootDictRecords(errs) ==
    {k \in 1..Len(errs) : errs[k].code = MISSING_REQUIRED_ROOT_DICT_ENTRY}

\* C5: for a document above 'AC1009', run() leaves exactly one
\* MISSING_REQUIRED_ROOT_DICT_ENTRY record for each of ACAD_GROUP and
\* ACAD_PLOTSTYLENAME that the root dict lacks, none for one it has, each
\* referencing the root dict.
C5_OneRecordPerMissingRootEntry ==
    (RunDone /\ StrGreater(drawing.dxfversion, AC1009)) =>
        /\ \A name \in {"ACAD_GROUP", "ACAD_PLOTSTYLENAME"} :
              Cardinality({k \in RootDictRecords(errors) :
                              errors[k].message = <<"Missing root dict entry: ", ToString(name)>>})
                  = IF name \in drawing.rootdict.entries THEN 0 ELSE 1
        /\ Cardinality(RootDictRecords(errors))
              = Cardinality({"ACAD_GROUP", "ACAD_PLOTSTYLENAME"} \ drawing.rootdict.entries)
        /\ \A k \in RootDictRecords(errors) : errors[k].entity = drawing.rootdict.handle

\* only ACAD_PLOTSTYLENAME is missing, and one record says so
C5_Witness ==
    /\ RunDone
    /\ StrGreater(drawing.dxfversion, AC1009)
    /\ drawing.rootdict.entries = {"ACAD_GROUP", "ACAD_LAYOUT"}
    /\ Cardinality(RootDictRecords(errors)) = 1

\* an entity that no rule of the rule set objects to
EntityClean(d, e) ==
    /\ "linetype" \in DOMAIN e.dxf =>
          \/ Lower(e.dxf.linetype) \in {bylayer, Lower(BYBLOCK)}
          \/ e.dxf.linetype \in d.linetypes
    /\ "style" \in DOMAIN e.dxf => e.dxf.style \in d.styles
    /\ "dimstyle" \in DOMAIN e.dxf => e.dxf.dimstyle \in d.dimstyles
    /\ "layer" \in DOMAIN e.dxf => Range(e.dxf.layer) \cap INVALID_LAYER_CHARS = {}
    /\ "color" \in DOMAIN e.dxf => e.dxf.color \in 0..256
    /\ "owner" \in DOMAIN e.dxf => \E o \in Entities(d) : o.handle = e.dxf.owner
    /\ \A k \in 1..Len(e.tags) :
          is_pointer_code(e.tags[k].code) =>
              \/ e.tags[k].value = "0"
              \/ \E o \in Entities(d) : o.handle = e.tags[k].value

NoViolations(d) ==
    /\ StrGreater(d.dxfversion, AC1009) => {"ACAD_GROUP", "ACAD_PLOTSTYLENAME"} \subseteq d.rootdict.entries
    /\ \A n \in DOMAIN d.tables : d.tables[n] = <<>>
    /\ \A e \in Entities(d) : EntityClean(d, e)

\* C6: for a document without violations run() leaves an empty error list,
\* and print_report then writes the single line "No issues found." and nothing else.
C6_CleanDocumentNoIssues ==
    (RunDone /\ NoViolations(drawing)) =>
        /\ errors = <<>>
        /\ stream # <<>> => stream = << <<"No issues found.\n\n">> >>

\* the report of a clean document one of whose entities has an unset pointer
C6_Witness ==
    /\ RunDone
    /\ NoViolations(drawing)
    /\ \E e \in Entities(drawing) : PointerTagsTo(e, "0") # {} /\ "owner" \in DOMAIN e.dxf
    /\ ~in_entitydb(drawing, "0")
    /\ stream = << <<"No issues found.\n\n">> >>

(***************************************************************************)
(* The rules of the rule set, each called on its own on one entity.        *)
(***************************************************************************)
byblock == <<"b", "y", "b", "l", "o", "c", "k">>

NoDxf ==
    DxfOf(Unsupported(<<>>), Unsupported(""), Unsupported(""), Unsupported(<<>>),
          Unsupported(0), Unsupported(""))

\* entities that support exactly one attribute
OneAttribDxfs ==
    {NoDxf}
    \cup {DxfOf(Supported(v), Unsupported(""), Unsupported(""), Unsupported(<<>>),
                Unsupported(0), Unsupported(""))
          : v \in {BYLAYER, ByLayer, bylayer, BYBLOCK, ByBlock, byblock, CONTINUOUS, DASHED, BYLAYERS}}
    \cup {DxfOf(Unsupported(<<>>), Supported(v), Unsupported(""), Unsupported(<<>>),
                Unsupported(0), Unsupported(""))
          : v \in {"STANDARD", "ARIAL"}}
    \cup {DxfOf(Unsupported(<<>>), Unsupported(""), Supported(v), Unsupported(<<>>),
                Unsupported(0), Unsupported(""))
          : v \in {"STANDARD", "ISO-25"}}
    \cup {DxfOf(Unsupported(<<>>), Unsupported(""), Unsupported(""), Supported(v),
                Unsupported(0), Unsupported(""))
          : v \in {<<"0">>, <<"A", "*">>, <<"<", "A", ">">>}}
    \cup {DxfOf(Unsupported(<<>>), Unsupported(""), Unsupported(""), Unsupported(<<>>),
                Supported(v), Unsupported(""))
          : v \in {-1, 0, 1, 255, 256, 257}}

OneAttribDoc(dxf) ==
    Document(AC1015, FullRootDict, [n \in {} |-> <<>>], <<Entity("1", dxf, <<>>)>>)

OwnerOnly(owner) ==
    DxfOf(Unsupported(<<>>), Unsupported(""), Unsupported(""), Unsupported(<<>>),
          Unsupported(0), owner)

PairTags ==
    {<<>>, <<Tag(330, "0")>>, <<Tag(340, "3"), Tag(340, "3")>>, <<Tag(330, "0"), Tag(330, "2")>>,
     <<Tag(8, "3"), Tag(330, "2")>>, <<Tag(340, "3"), Tag(330, "2")>>}

PairOwners ==
    {<<Unsupported(""), Unsupported("")>>, <<Supported("9"), Supported("9")>>,
     <<Supported("1"), Supported("0")>>}

\* two entities with owners and pointer tags
PairDoc(keys, o, t) ==
    Document(AC1015, FullRootDict, [n \in {} |-> <<>>],
             <<Entity(keys[1], OwnerOnly(o[1]), t[1]), Entity(keys[2], OwnerOnly(o[2]), t[2])>>)

InitRules ==
    /\ \/ \E dxf \in OneAttribDxfs : drawing = OneAttribDoc(dxf)
       \/ \E keys \in {<<"1", "2">>, <<"0", "1">>}, o \in PairOwners, t \in PairTags \X PairTags :
              drawing = PairDoc(keys, o, t)
    /\ InitAuditor

\* a rule of the Auditor called as auditor.check_...(entity)
CallRule(op, entity, invalid_zero, after) ==
    /\ pc = "idle"
    /\ Len(errors) < MaxErrors
    /\ Install(after)
    /\ last' = Call(op, entity.handle, invalid_zero)
    /\ stream' = <<>>
    /\ returned' = NoReturn
    /\ gen' = IF after.errors = errors THEN gen ELSE Touch(gen)
    /\ UNCHANGED <<drawing, pc, walk, yielded>>

CheckIfLinetypeExists ==
    \E entity \in Range(drawing.entitydb) :
        CallRule("check_if_linetype_exists", entity, FALSE,
                 check_if_linetype_exists(Auditor, drawing, entity))

CheckIfTextStyleExists ==
    \E entity \in Range(drawing.entitydb) :
        CallRule("check_if_text_style_exists", entity, FALSE,
                 check_if_text_style_exists(Auditor, drawing, entity))

CheckIfDimensionStyleExists ==
    \E entity \in Range(drawing.entitydb) :
        CallRule("check_if_dimension_style_exists", entity, FALSE,
                 check_if_dimension_style_exists(Auditor, drawing, entity))

CheckForValidLayerName ==
    \E entity \in Range(drawing.entitydb) :
        CallRule("check_for_valid_layer_name", entity, FALSE,
                 check_for_valid_layer_name(Auditor, drawing, entity))

CheckForValidColorIndex ==
    \E entity \in Range(drawing.entitydb) :
        CallRule("check_for_valid_color_index", entity, FALSE,
                 check_for_valid_color_index(Auditor, drawing, entity))

CheckForExistingOwner ==
    \E entity \in Range(drawing.entitydb) :
        CallRule("check_for_existing_owner", entity, FALSE,
                 check_for_existing_owner(Auditor, drawing, entity))

CheckPointerTargetExists ==
    \E entity \in Range(drawing.entitydb), invalid_zero \in BOOLEAN :
        CallRule("check_pointer_target_exists", entity, invalid_zero,
                 check_pointer_target_exists(Auditor, drawing, entity, invalid_zero))

NextRules ==
    \/ CheckIfLinetypeExists
    \/ CheckIfTextStyleExists
    \/ CheckIfDimensionStyleExists
    \/ CheckForValidLayerName
    \/ CheckForValidColorIndex
    \/ CheckForExistingOwner
    \/ CheckPointerTargetExists
    \/ Reset

SpecRules == InitRules /\ [][NextRules]_vars

\* the entity the most recent call was given
LastEntity == get_dxf_entity(drawing, last.handle)

\* the step appended exactly one record, with this code and about this entity
AppendedOne(code, handle) ==
    /\ Len(errors') = Len(errors) + 1
    /\ SubSeq(errors', 1, Len(errors)) = errors
    /\ errors'[Len(errors')].code = code
    /\ errors'[Len(errors')].entity = handle

\* C3: a call of check_pointer_target_exists with invalid_zero=False appends
\* no record naming the unset pointer "0" and does not add "0" to
\* undefined_targets, whether or not "0" is a key of the entity database.
C3_UnsetPointerNotReported ==
    [][ (last'.op = "check_pointer_target_exists" /\ ~last'.invalid_zero) =>
            /\ RecordsNaming(errors', "0") = RecordsNaming(errors, "0")
            /\ "0" \in undefined_targets' => "0" \in undefined_targets ]_vars

\* a default call on an entity with a pointer tag "0", "0" being no key and not yet reported
C3_Witness ==
    /\ last.op = "check_pointer_target_exists"
    /\ ~last.invalid_zero
    /\ PointerTagsTo(LastEntity, "0") # {}
    /\ ~in_entitydb(drawing, "0")
    /\ "0" \notin undefined_targets
    /\ undefined_targets # {}

\* C9: for an entity that supports color, check_for_valid_color_index appends
\* exactly one INVALID_COLOR_INDEX record when color < 0 or color > 256 and
\* nothing when 0 <= color <= 256.
C9_ColorIndexRange ==
    [][ last'.op = "check_for_valid_color_index" =>
            LET entity == get_dxf_entity(drawing, last'.handle)
            IN  "color" \in DOMAIN entity.dxf =>
                    IF entity.dxf.color < 0 \/ entity.dxf.color > 256
                    THEN AppendedOne(INVALID_COLOR_INDEX, entity.handle)
                    ELSE errors' = errors ]_vars

\* color 257 was reported once to an empty list
C9_Witness ==
    /\ last.op = "check_for_valid_color_index"
    /\ last.fresh
    /\ "color" \in DOMAIN LastEntity.dxf
    /\ LastEntity.dxf.color = 257
    /\ Len(errors) = 1
    /\ errors[1].code = INVALID_COLOR_INDEX

\* 'bylayer' and 'byblock' in the letter cases the documents use
ByLayerByBlock == {BYLAYER, ByLayer, bylayer, BYBLOCK, ByBlock, byblock}

\* C10: for an entity that supports linetype, check_if_linetype_exists appends
\* nothing when the value is 'bylayer' or 'byblock' in any letter case, and for
\* any other value exactly one UNDEFINED_LINETYPE record if and only if the
\* value is not in the linetype table.
C10_LinetypeExists ==
    [][ last'.op = "check_if_linetype_exists" =>
            LET entity == get_dxf_entity(drawing, last'.handle)
            IN  "linetype" \in DOMAIN entity.dxf =>
                    IF entity.dxf.linetype \notin ByLayerByBlock
                       /\ entity.dxf.linetype \notin drawing.linetypes
                    THEN AppendedOne(UNDEFINED_LINETYPE, entity.handle)
                    ELSE errors' = errors ]_vars

\* 'ByLayer' is in no table and was not reported
C10_Witness ==
    /\ last.op = "check_if_linetype_exists"
    /\ "linetype" \in DOMAIN LastEntity.dxf
    /\ LastEntity.dxf.linetype = ByLayer
    /\ ByLayer \notin drawing.linetypes
    /\ errors = <<>>

(***************************************************************************)
(* The error list as its user sees it: add_error, filter_errors and the    *)
(* iteration of the generator it returns, reset.                           *)
(***************************************************************************)
SinkDocument == Document(AC1015, FullRootDict, [n \in {} |-> <<>>], <<Entity("1", PlainDxf, <<>>)>>)

\* the records the user adds: [code, dxf_entity]
SinkRecords ==
    { <<INVALID_COLOR_INDEX, "1">>, <<INVALID_OWNER_HANDLE, "1">>, <<INVALID_OWNER_HANDLE, None>> }

SinkCodes == {INVALID_COLOR_INDEX, INVALID_OWNER_HANDLE}

InitSink ==
    /\ drawing = SinkDocument
    /\ InitAuditor

SinkAddError ==
    /\ pc = "idle"
    /\ Len(errors) < MaxSink
    /\ \E r \in SinkRecords :
          errors' = add_error(errors, r[1], EmptyMessage, r[2], None)
    /\ last' = Call("add_error", None, FALSE)
    /\ stream' = <<>>
    /\ returned' = NoReturn
    /\ gen' = Touch(gen)
    /\ UNCHANGED <<drawing, undefined_targets, pc, walk, yielded>>

\* filter_errors(code): a new generator over the list self.errors names now
FilterErrors ==
    /\ pc = "idle"
    /\ \E code \in SinkCodes :
          gen' = [state |-> "ready", code |-> code, live |-> TRUE, items |-> <<>>,
                  dirty |-> FALSE,
                  earlier |-> IF /\ gen.state = "exhausted"
                                 /\ gen.code = code
                                 /\ ~gen.dirty
                              THEN <<yielded[1].items>>
                              ELSE <<>>]
    /\ yielded' = <<>>
    /\ stream' = <<>>
    /\ returned' = NoReturn
    /\ UNCHANGED <<drawing, errors, undefined_targets, pc, walk, last>>

\* the caller iterates the generator to its end, e.g. list(generator);
\* clean: the error list did not change since the generator was created
Iterate ==
    /\ pc = "idle"
    /\ gen.state # "none"
    /\ Len(yielded) < MaxIter
    /\ yielded' = Append(yielded,
                         [items |-> iterate_generator(gen, GenList), clean |-> ~gen.dirty])
    /\ gen' = [gen EXCEPT !.state = "exhausted"]
    /\ stream' = <<>>
    /\ returned' = NoReturn
    /\ UNCHANGED <<drawing, errors, undefined_targets, pc, walk, last>>

NextSink ==
    \/ SinkAddError
    \/ FilterErrors
    \/ Iterate
    \/ Reset

SpecSink == InitSink /\ [][NextSink]_vars

\* the records of the error list with this code, in the order of the list
Matching(code) == SelectSeq(errors, LAMBDA r : r.code = code)

\* C7: iterating what filter_errors(c) returned yields exactly the records of
\* the error list whose code is c, each once, in the order they were appended:
\* as many as the list holds with that code, none when it holds none.
C7_FilterYieldsMatching ==
    (Len(yielded) >= 1 /\ ~gen.dirty) =>
        /\ yielded[1].items = Matching(gen.code)
        /\ Len(yielded[1].items) = Cardinality({k \in 1..Len(errors) : errors[k].code = gen.code})

\* two of three records match, with another one between them
C7_Witness ==
    /\ Len(yielded) = 1
    /\ ~gen.dirty
    /\ Len(errors) = 3
    /\ errors[1].code = gen.code /\ errors[2].code # gen.code /\ errors[3].code = gen.code
    /\ errors[1] # errors[3]
    /\ yielded[1].items = <<errors[1], errors[3]>>

\* C8 as claimed: a second iteration of what one call of filter_errors
\* returned, the error list unchanged in between, yields the records of the
\* first iteration again.
C8_Restartable ==
    (Len(yielded) >= 2 /\ yielded[2].clean) => yielded[2].items = yielded[1].items

\* C8 amended: what one call returned is exhausted by its first iteration, any
\* later iteration of it yields nothing; a new call of filter_errors(code),
\* the error list unchanged, yields the records of the first iteration again.
C8_SinglePass ==
    /\ \A k \in 2..Len(yielded) : yielded[k].items = <<>>
    /\ (gen.earlier # <<>> /\ Len(yielded) >= 1 /\ yielded[1].clean) =>
           yielded[1].items = gen.earlier[1]

\* the generator of a second call was iterated twice over an unchanged list
\* with matching records
C8_Witness ==
    /\ gen.earlier # <<>>
    /\ Len(yielded) = 2
    /\ yielded[1].clean /\ yielded[2].clean
    /\ yielded[1].items # <<>>
    /\ yielded[1].items = gen.earlier[1]
    /\ yielded[2].items = <<>>

(***************************************************************************)
(* The document under audit.                                               *)
(***************************************************************************)
\* C11: no step of run() and no call of reset, add_error or print_report
\* changes the document: version, root dict, tables and entity database
\* (entities, attributes, tags) are after the step what they were before it.
C11_DocumentUnchanged == [][drawing' = drawing]_vars

\* a run has left records and reported targets behind for a document that
\* lacks root dict entries or holds dangling pointers
C11_Witness ==
    /\ RunDone
    /\ errors # <<>>
    /\ \/ undefined_targets # {}
       \/ RootDictRecords(errors) # {}

(***************************************************************************)
(* Which entity a pointer record references.                               *)
(***************************************************************************)
\* the positions in the entity database of the entities pointing to h
Referrers(d, h) == {k \in 1..Len(d.entitydb) : PointerTagsTo(d.entitydb[k], h) # {}}

FirstReferrer(d, h) ==
    d.entitydb[CHOOSE k \in Referrers(d, h) : \A j \in Referrers(d, h) : k <= j]

\* C12: after run(), the POINTER_TARGET_NOT_EXISTS record of a missing target
\* references the first entity, in the order of the database walk, that holds
\* a pointer tag to that target, and no entity visited later.
C12_FirstReferrerReported ==
    RunDone =>
        \A h \in MissingTargets(drawing) :
            \A k \in RecordsNaming(errors, h) :
                errors[k].entity = FirstReferrer(drawing, h).handle

\* two entities point to the same missing target; its record references the
\* one visited first
C12_Witness ==
    /\ RunDone
    /\ \E h \in MissingTargets(drawing) :
          /\ Cardinality(Referrers(drawing, h)) >= 2
          /\ \E k \in RecordsNaming(errors, h) :
                 errors[k].entity = drawing.entitydb[1].handle

(***************************************************************************)
(* The database walk.                                                      *)
(***************************************************************************)
\* the records a rule appends when applied to the Auditor as it stands
NewRecords(after) == SubSeq(after.errors, Len(errors) + 1, Len(after.errors))

\* the records of the seven rules, each applied to the entity
RuleSetRecords(d, entity) ==
    NewRecords(check_if_linetype_exists(Auditor, d, entity))
    \o NewRecords(check_if_text_style_exists(Auditor, d, entity))
    \o NewRecords(check_if_dimension_style_exists(Auditor, d, entity))
    \o NewRecords(check_for_valid_layer_name(Auditor, d, entity))
    \o NewRecords(check_for_valid_color_index(Auditor, d, entity))
    \o NewRecords(check_for_existing_owner(Auditor, d, entity))
    \o NewRecords(check_pointer_target_exists(Auditor, d, entity, FALSE))

\* C13: the database walk of run() starts at the first key, each of its steps
\* resolves the entity of the key at hand, applies the seven rules to it and
\* moves to the next key, and the walk ends only after the last key: every
\* handle is visited exactly once.
C13_WalkVisitsEveryHandleOnce ==
    [][ LET keys == entitydb_keys(drawing)
        IN  /\ pc # "check_database_entities" /\ pc' = "check_database_entities" => walk' = 1
            /\ pc = "check_database_entities" /\ pc' = "check_database_entities" =>
                   /\ walk \in 1..Len(keys)
                   /\ walk' = walk + 1
                   /\ LET entity == get_dxf_entity(drawing, keys[walk])
                      IN  /\ entity.handle = keys[walk]
                          /\ errors' = errors \o RuleSetRecords(drawing, entity)
                          /\ undefined_targets' =
                                 check_pointer_target_exists(Auditor, drawing, entity, FALSE)
                                     .undefined_targets
            /\ pc = "check_database_entities" /\ pc' # "check_database_entities" =>
                   /\ walk = Len(keys) + 1
                   /\ errors' = errors
                   /\ undefined_targets' = undefined_targets ]_vars

\* the walk has passed two entities and each of them left a record
C13_Witness ==
    /\ pc = "check_database_entities"
    /\ Len(drawing.entitydb) = 2
    /\ walk = 3
    /\ \A e \in Entities(drawing) : \E k \in 1..Len(errors) : errors[k].entity = e.handle

(***************************************************************************)
(* How many records one application of a rule appends.                     *)
(***************************************************************************)
\* the attribute each of the six attribute rules is guarded by
GuardOf ==
    [check_if_linetype_exists |-> "linetype",
     check_if_text_style_exists |-> "style",
     check_if_dimension_style_exists |-> "dimstyle",
     check_for_valid_layer_name |-> "layer",
     check_for_valid_color_index |-> "color",
     check_for_existing_owner |-> "owner"]

RuleOps == DOMAIN GuardOf \cup {"check_pointer_target_exists"}

\* the step kept the error list as a prefix and appended n records
AppendedCount(n) ==
    /\ Len(errors') = Len(errors) + n
    /\ SubSeq(errors', 1, Len(errors)) = errors

TableOrder ==
    <<"layers", "linetypes", "styles", "dimstyles", "ucs", "appids", "views", "block_records">>

TablePosition(name) == CHOOSE k \in 1..Len(TableOrder) : TableOrder[k] = name

\* the table a record of a table's audit routine comes from
TableOfRecord(record) ==
    CHOOSE n \in TABLE_NAMES : record.message = Format("Invalid entry in table: ", n)

\* C15: the table step of run() keeps the error list as a prefix and appends
\* the findings of the tables in the order layers, linetypes, styles,
\* dimstyles, ucs, appids, views, block_records: each present table
\* contributes its findings exactly once, an absent table contributes none,
\* and block_records contributes none unless the version is above 'AC1009'.
C15_TablesInFixedOrder ==
    [][ pc = "check_table_entries" /\ pc' # "check_table_entries" =>
            LET new == SubSeq(errors', Len(errors) + 1, Len(errors'))
                audited(n) ==
                    /\ n \in DOMAIN drawing.tables
                    /\ n = "block_records" => StrGreater(drawing.dxfversion, AC1009)
            IN  /\ SubSeq(errors', 1, Len(errors)) = errors
                /\ undefined_targets' = undefined_targets
                /\ \A k \in 1..Len(new) :
                       \E n \in TABLE_NAMES : new[k].message = Format("Invalid entry in table: ", n)
                /\ \A n \in TABLE_NAMES :
                       Cardinality({k \in 1..Len(new) : TableOfRecord(new[k]) = n})
                           = IF audited(n) THEN Len(drawing.tables[n]) ELSE 0
                /\ \A i, j \in 1..Len(new) :
                       i < j => TablePosition(TableOfRecord(new[i]))
                                   <= TablePosition(TableOfRecord(new[j])) ]_vars

\* a legacy document whose eight tables all hold a finding: the table step
\* has left the seven records of the tables before block_records
C15_Witness ==
    /\ pc = "check_database_entities"
    /\ walk = 1
    /\ ~StrGreater(drawing.dxfversion, AC1009)
    /\ DOMAIN drawing.tables = TABLE_NAMES
    /\ \A n \in TABLE_NAMES : drawing.tables[n] # <<>>
    /\ Len(errors) = 7
    /\ \A k \in 1..7 : errors[k].message = Format("Invalid entry in table: ", TableOrder[k])

(***************************************************************************)
(* The three phases of run().                                              *)
(***************************************************************************)
\* the phase a record of run() comes from: 1 the root dict check, 2 a
\* table's audit routine, 3 the database walk
Phase(record) ==
    IF record.code = MISSING_REQUIRED_ROOT_DICT_ENTRY THEN 1
    ELSE IF record.code = "INVALID_TABLE_ENTRY" THEN 2
    ELSE 3

\* C16: during and after run(), the records of the root dict check precede
\* the records of the tables, which precede the records of the database
\* walk; when the root dict check begins the list is empty, when the table
\* checks begin it holds root dict records only, and when the database walk
\* begins it holds no record of an entity rule.
C16_PhasesInOrder ==
    (pc # "idle" \/ RunDone) =>
        /\ \A i, j \in 1..Len(errors) : i < j => Phase(errors[i]) <= Phase(errors[j])
        /\ pc = "check_root_dict" => errors = <<>>
        /\ pc = "check_table_entries" => \A k \in 1..Len(errors) : Phase(errors[k]) = 1
        /\ pc = "check_database_entities" /\ walk = 1 =>
               \A k \in 1..Len(errors) : Phase(errors[k]) <= 2

\* a run that left records of all three phases
C16_Witness ==
    /\ RunDone
    /\ \A p \in 1..3 : \E k \in 1..Len(errors) : Phase(errors[k]) = p

(***************************************************************************)
(* The error list during one run().                                        *)
(***************************************************************************)
\* C17: run() begins with an empty error list and an empty set of reported
\* targets, and from then until it returns every step keeps the error list
\* as a prefix of the new one (nothing removed, reordered or modified) and
\* undefined_targets as a subset of the new one.
C17_RunOnlyAppends ==
    [][ /\ pc = "idle" /\ pc' # "idle" => errors' = <<>> /\ undefined_targets' = {}
        /\ pc # "idle" =>
               /\ Len(errors') >= Len(errors)
               /\ SubSeq(errors', 1, Len(errors)) = errors
               /\ undefined_targets \subseteq undefined_targets' ]_vars

\* the database walk under way: records of several steps and a reported
\* target, in a run that began with records of earlier calls
C17_Witness ==
    /\ pc = "check_database_entities"
    /\ walk > 1
    /\ ~last.fresh
    /\ \E i, j \in 1..Len(errors) : Phase(errors[i]) < Phase(errors[j])
    /\ undefined_targets # {}

(***************************************************************************)
(* The owner rule.                                                         *)
(***************************************************************************)
OwnerRecords(errs, owner_handle) ==
    {k \in 1..Len(errs) :
        /\ errs[k].code = INVALID_OWNER_HANDLE
        /\ errs[k].message = <<"Invalid owner handle: #", ToString(owner_handle)>>}

\* C18: for an entity that supports owner, a call of check_for_existing_owner
\* appends exactly one INVALID_OWNER_HANDLE record about the entity, naming
\* the owner handle, when that handle is no key of the entity database, the
\* handle "0" and handles reported before included, and nothing when it is a
\* key; undefined_targets is left alone.
C18_OwnerExists ==
    [][ last'.op = "check_for_existing_owner" =>
            LET entity == get_dxf_entity(drawing, last'.handle)
            IN  /\ undefined_targets' = undefined_targets
                /\ "owner" \in DOMAIN entity.dxf =>
                       IF entity.dxf.owner \notin Range(entitydb_keys(drawing))
                       THEN /\ AppendedOne(INVALID_OWNER_HANDLE, entity.handle)
                            /\ Len(errors') \in OwnerRecords(errors', entity.dxf.owner)
                       ELSE errors' = errors ]_vars

\* two entities share a missing owner: one record for each of them
C18_Witness ==
    /\ last.op = "check_for_existing_owner"
    /\ Len(drawing.entitydb) = 2
    /\ \E owner_handle \in {"0", "9"} :
          /\ \A e \in Entities(drawing) :
                 "owner" \in DOMAIN e.dxf /\ e.dxf.owner = owner_handle
          /\ ~in_entitydb(drawing, owner_handle)
          /\ Cardinality(OwnerRecords(errors, owner_handle)) = 2
          /\ \A e \in Entities(drawing) :
                 \E k \in OwnerRecords(errors, owner_handle) : errors[k].entity = e.handle

(***************************************************************************)
(* Reading the error list.                                                 *)
(***************************************************************************)
\* C19: for a list of n >= 1 records print_report writes the header with the
\* count n and then, for i = 1..n in list order, a line with the number i and
\* the code of the i-th record, in the entity-free form exactly when that
\* record has no entity, and a line with its message; print_report, __len__,
\* __bool__ and __iter__ leave errors and undefined_targets unchanged, and
\* the three return the length, its being positive and the records in order.
C19_ReportAndReads ==
    [][ /\ stream' # <<>> =>
               /\ errors' = errors
               /\ undefined_targets' = undefined_targets
               /\ errors # <<>> =>
                      LET n == Len(errors)
                      IN  /\ Len(stream') = 1 + 2 * n
                          /\ stream'[1] = <<"{} issues found.\n\n", ToString(n)>>
                          /\ \A i \in 1..n :
                                 LET line == stream'[2 * i]
                                 IN  /\ line[2] = ToString(i)
                                     /\ line[3] = errors[i].code
                                     /\ IF errors[i].entity = None
                                        THEN line = <<"{:4d}. Issue code [{}]", ToString(i),
                                                      errors[i].code, "\n">>
                                        ELSE /\ Len(line) = 5
                                             /\ line[4] = errors[i].entity
                                     /\ stream'[2 * i + 1] = <<"   ", errors[i].message, "\n\n">>
        /\ returned'.op # "none" =>
               /\ errors' = errors
               /\ undefined_targets' = undefined_targets
               /\ returned'.op = "__len__" => returned'.len = Len(errors)
               /\ returned'.op = "__bool__" => (returned'.bool <=> errors # <<>>)
               /\ returned'.op = "__iter__" => returned'.iter = errors ]_vars

\* a report of a list that holds a record without an entity and a record
\* with one
C19_Witness ==
    /\ stream # <<>>
    /\ Len(stream) = 1 + 2 * Len(errors)
    /\ \E i, j \in 1..Len(errors) : errors[i].entity = None /\ errors[j].entity # None

(***************************************************************************)
(* undefined_targets and the pointer records.                              *)
(***************************************************************************)
PointerRecords(errs) == {k \in 1..Len(errs) : errs[k].code = POINTER_TARGET_NOT_EXISTS}

\* C20: whatever rules were called since the Auditor was created or reset,
\* check_pointer_target_exists with either value of invalid_zero among them,
\* undefined_targets is the set of the targets named by the
\* POINTER_TARGET_NOT_EXISTS records, there are as many such records as
\* members of the set, and no member is a key of the entity database.
C20_TargetsMatchRecords ==
    /\ undefined_targets = {h \in PointerTargets(drawing) : RecordsNaming(errors, h) # {}}
    /\ \A k \in PointerRecords(errors) :
           \E h \in PointerTargets(drawing) : k \in RecordsNaming(errors, h)
    /\ Cardinality(PointerRecords(errors)) = Cardinality(undefined_targets)
    /\ \A h \in undefined_targets : ~in_entitydb(drawing, h)

\* the rule has reported "0" (invalid_zero=True) and one more target, the
\* last call having begun with records of earlier calls
C20_Witness ==
    /\ last.op = "check_pointer_target_exists"
    /\ ~last.fresh
    /\ "0" \in undefined_targets
    /\ Cardinality(undefined_targets) = 2
    /\ Cardinality(PointerRecords(errors)) = 2

====
